---- MODULE Spec2Model ----
(***************************************************************************)
(* Model of jesshill/Image_Analysis, 02_Data-Extraction/scripts:           *)
(*   rme_parser.py  - the README metadata parser (rme_parser.parser)       *)
(*   KeemPlot.py    - generate_db / update_db (the persisted table merge)  *)
(*                                                                         *)
(* A text line is a sequence of one-character strings, so that strip,      *)
(* startswith and split are computed character by character as Python      *)
(* computes them.                                                          *)
(***************************************************************************)
EXTENDS Integers, Sequences, FiniteSets, TLC

\* ------------------------------------------------------------------------
\* Bounds of the model
\* ------------------------------------------------------------------------
\* number of lines read from a file of arbitrary lines
MaxLines == 6
\* number of lines read from a file made of non-nested blocks
MaxBlockLines == 11
\* number of rows of a table before update_db
MaxRows == 2
\* number of update_db calls of one instance that return
MaxMerges == 2
\* number of KeemPlot instances that run one after the other
MaxInstances == 2

\* ------------------------------------------------------------------------
\* Sets of numbers
\* ------------------------------------------------------------------------
Max(S) == CHOOSE x \in S : \A y \in S : y <= x
Min(S) == CHOOSE x \in S : \A y \in S : x <= y
\* the j-th smallest element of S
Nth(S, j) == CHOOSE i \in S : Cardinality({k \in S : k <= i}) = j
Range(f) == {f[i] : i \in DOMAIN f}

\* ------------------------------------------------------------------------
\* Python string operations used by rme_parser.parser
\* ------------------------------------------------------------------------
NL == "\n"

\* characters str.strip() removes
Whitespace == {" ", "\t", "\n", "\r", "\f"}

RECURSIVE LStripSet(_, _)
LStripSet(s, drop) ==
    IF s # <<>> /\ Head(s) \in drop THEN LStripSet(Tail(s), drop) ELSE s

RECURSIVE RStripSet(_, _)
RStripSet(s, drop) ==
    IF s # <<>> /\ s[Len(s)] \in drop
    THEN RStripSet(SubSeq(s, 1, Len(s) - 1), drop)
    ELSE s

\* line.strip("\n")
StripNL(s) == RStripSet(LStripSet(s, {NL}), {NL})

\* line.strip()
Strip(s) == RStripSet(LStripSet(s, Whitespace), Whitespace)

\* s.startswith(p)
StartsWith(s, p) == Len(s) >= Len(p) /\ SubSeq(s, 1, Len(p)) = p

\* line.split(sep=","): never empty, empty fields are kept
RECURSIVE Split(_)
Split(s) ==
    IF \E i \in 1..Len(s) : s[i] = ","
    THEN LET i == CHOOSE k \in 1..Len(s) :
                     s[k] = "," /\ \A j \in 1..(k - 1) : s[j] # ","
         IN  <<SubSeq(s, 1, i - 1)>> \o Split(SubSeq(s, i + 1, Len(s)))
    ELSE <<s>>

\* ------------------------------------------------------------------------
\* rme_parser
\* ------------------------------------------------------------------------
PARSE1 == <<"*", "-", "-", "*">>
PARSE2 == <<"*", "-", "*">>
FEED == <<"f", "e", "e", "d">>
DIET == <<"d", "i", "e", "t">>

\* line.strip().startswith(self.PARSE1) / (self.PARSE2)
IsParse1(line) == StartsWith(Strip(line), PARSE1)
IsParse2(line) == StartsWith(Strip(line), PARSE2)

\* for i, w in enumerate(self.header): if w == "feed": self.header[i] = "diet"
RenameFeed(h) == [i \in 1..Len(h) |-> IF h[i] = FEED THEN DIET ELSE h[i]]

\* first line of a COMMON block: self.header = line.split(sep=",")
CommonHeader(h, line) == Split(line)

\* a common row that is set once and never overwritten
CommonRowKeepFirst(c, line) == IF c = <<>> THEN Split(line) ELSE c

\* later line of a COMMON block: common = line.split(sep=",")
CommonRow(c, line) == Split(line)

\* a header that grows without the renaming
GroupHeaderNoRename(h, line) == h \o Split(line)

\* first line of a GROUP block: the header grows, then "feed" is renamed
GroupHeader(h, line) == RenameFeed(h \o Split(line))

\* later line of a GROUP block: data.append([*common, *line.split(sep=",")])
DataRow(c, line) == c \o Split(line)

\* closing a GROUP block: self.infos.append(data)
CloseGroup(groups, rows) == Append(groups, rows)

\* if level == 1:
InCommon(lv) == lv = 1

\* the GROUP branch taken whenever the COMMON branch is not
InGroupElse(lv) == lv # 1

\* if level == 2:
InGroup(lv) == lv = 2

\* the level after the marker tests that end the loop body
MarkerLevel(lv, line) ==
    LET l1 == IF IsParse1(line) THEN 1 ELSE lv
    IN  IF IsParse2(line) THEN 2 ELSE l1

VARIABLES
    lines,       \* the lines of the file the loop has iterated over so far
    ppc,         \* "loop": inside `for line in lines`; "done": parser returned
    level,       \* 0 outside any block, 1 in a COMMON block, 2 in a GROUP block
    first_line,  \* the next content line is the first line of its block
    header,      \* self.header
    common,      \* the common row
    data,        \* rows accumulated for the open GROUP block
    infos        \* self.infos: the closed groups

VARIABLES
    disk,        \* the pickled table at `path`: a table, NoFile or Partial
    src,         \* the table generate_db builds from this instance's data
    df,          \* self.df: NoDf until generate_db has run
    upc,         \* where update_db stands: the statement it executes next
    old,         \* update_db's local `old`
    new,         \* update_db's local `new`
    before,      \* the table at `path` when the current update_db was called
    merges,      \* update_db calls of this instance that returned
    instances    \* KeemPlot instances constructed so far

VARIABLES
    runs,        \* two update_db runs on one path, each with its self.df, its
                 \* locals old and new and the statement it executes next
    serialized,  \* the callers let one update_db return before the next starts
    disk0        \* the table at `path` before either of the two runs

VARIABLES
    kpc,           \* where KeemPlot.__init__ and generate_db stand
    group_number,  \* the argument group_number
    dbdata,        \* self.dbdata: the rows of the selected group
    max_value,     \* self._max_value
    final_len,     \* self._final_len
    threshold,     \* the argument threshold; self._threshold is threshold / max_value
    Raw_Arrays,    \* self.Raw_Arrays: one 2-D array per image
    flatdata_ni,   \* the raw vectors, one per image processed
    flatdata,      \* the resampled and thresholded vectors
    flatdata_ut,   \* the resampled vectors
    barcodes,      \* the barcodes
    self_df        \* self.df as generate_db builds it from header and dbdata

pvars == <<lines, ppc, level, first_line, header, common, data, infos>>
dbvars == <<disk, src, df, upc, old, new, before, merges, instances>>
cvars == <<runs, serialized, disk0>>
kvars == <<kpc, group_number, dbdata, max_value, final_len, threshold, Raw_Arrays,
           flatdata_ni, flatdata, flatdata_ut, barcodes, self_df>>

vars == <<lines, ppc, level, first_line, header, common, data, infos,
          disk, src, df, upc, old, new, before, merges, instances,
          runs, serialized, disk0,
          kpc, group_number, dbdata, max_value, final_len, threshold, Raw_Arrays,
          flatdata_ni, flatdata, flatdata_ut, barcodes, self_df>>

\* lines a README can hold, each as readlines() returns it
LCommon == <<"*", "-", "-", "*", "\n">>
LGroup  == <<"*", "-", "*", "\n">>
LGroupIndented == <<" ", "*", "-", "*", "x", "\n">>
LA      == <<"a", "\n">>
LBFeed  == <<"b", ",", "f", "e", "e", "d", "\n">>

LineSet == {LCommon, LGroup, LGroupIndented, LA, LBFeed}
BlockLineSet == {LCommon, LGroup, LA, LBFeed}

InitParser ==
    /\ lines = <<>>
    /\ ppc = "loop"
    /\ level = 0
    /\ first_line = FALSE
    /\ header = <<>>
    /\ common = <<>>
    /\ data = <<>>
    /\ infos = <<>>

\* one iteration of `for line in lines` on the line raw
ParseLine(raw) ==
    /\ ppc = "loop"
    /\ lines' = Append(lines, raw)
    /\ ppc' = ppc
    /\ UNCHANGED <<dbvars, cvars, kvars>>
    /\ LET line == StripNL(raw) IN
       IF InCommon(level) /\ IsParse1(line)
       THEN /\ level' = 0
            /\ UNCHANGED <<first_line, header, common, data, infos>>
       ELSE IF InGroup(level) /\ IsParse2(line)
       THEN /\ infos' = CloseGroup(infos, data)
            /\ data' = <<>>
            /\ level' = 0
            /\ UNCHANGED <<first_line, header, common>>
       ELSE /\ header' = IF InCommon(level) /\ first_line THEN CommonHeader(header, line)
                         ELSE IF InGroup(level) /\ first_line THEN GroupHeader(header, line)
                         ELSE header
            /\ common' = IF InCommon(level) /\ ~first_line THEN CommonRow(common, line)
                         ELSE common
            /\ data' = IF InGroup(level) /\ ~first_line THEN Append(data, DataRow(common, line))
                       ELSE data
            /\ level' = MarkerLevel(level, line)
            /\ first_line' = IF IsParse1(line) \/ IsParse2(line) THEN TRUE
                             ELSE IF InCommon(level) \/ InGroup(level) THEN FALSE
                             ELSE first_line
            /\ UNCHANGED infos

\* an end of file that closes the GROUP block left open
EndOfFileFlush ==
    /\ ppc = "loop"
    /\ ppc' = "done"
    /\ infos' = IF level = 2 THEN Append(infos, data) ELSE infos
    /\ UNCHANGED <<lines, level, first_line, header, common, data>>
    /\ UNCHANGED <<dbvars, cvars, kvars>>

\* the loop has run out of lines: parser returns
EndOfFile ==
    /\ ppc = "loop"
    /\ ppc' = "done"
    /\ UNCHANGED <<lines, level, first_line, header, common, data, infos>>
    /\ UNCHANGED <<dbvars, cvars, kvars>>

ReadLine == \E raw \in LineSet : Len(lines) < MaxLines /\ ParseLine(raw)

\* what stands where a table may be missing
NoFile == [missing |-> "file"]
Partial == [missing |-> "rest of the file"]
NoDf == [missing |-> "self.df"]
None == [missing |-> "local"]

\* no table work is under way
DbIdle ==
    /\ disk = NoFile
    /\ src = NoDf
    /\ df = NoDf
    /\ upc = "idle"
    /\ old = None
    /\ new = None
    /\ before = None
    /\ merges = 0
    /\ instances = 0

\* no pair of update_db runs is under way
ConcIdle ==
    /\ runs = <<>>
    /\ serialized = TRUE
    /\ disk0 = NoFile

\* no KeemPlot instance is being constructed
KeemIdle ==
    /\ kpc = "idle"
    /\ group_number = 1
    /\ dbdata = <<>>
    /\ max_value = 1
    /\ final_len = 0
    /\ threshold = 0
    /\ Raw_Arrays = <<>>
    /\ flatdata_ni = <<>>
    /\ flatdata = <<>>
    /\ flatdata_ut = <<>>
    /\ barcodes = <<>>
    /\ self_df = NoDf

Init == InitParser /\ DbIdle /\ ConcIdle /\ KeemIdle
Next == ReadLine \/ EndOfFile
Spec == Init /\ [][Next]_vars

\* ------------------------------------------------------------------------
\* KeemPlot.generate_db / KeemPlot.update_db
\*
\* A table is a record: cols, the column names in order; index, the row
\* labels; rows, one function from column name to cell per row.  NaN is the
\* missing cell of an outer join.
\* ------------------------------------------------------------------------
NaN == "NaN"
IdColumn == "ID"

IdSet == {"1", "2"}
ValSet == {"p", "q"}
ColChoices == {<<"ID", "v">>, <<"v">>, <<"ID">>}

RangeIndex(n) == [i \in 1..n |-> i - 1]
RowSet(C) == {r \in [C -> IdSet \cup ValSet] :
                 /\ "ID" \in C => r["ID"] \in IdSet
                 /\ "v" \in C => r["v"] \in ValSet}
SeqsUpTo(S, n) == UNION {[1..k -> S] : k \in 0..n}
Tables == UNION {{[cols |-> c, index |-> RangeIndex(Len(r)), rows |-> r] :
                     r \in SeqsUpTo(RowSet(Range(c)), MaxRows)} : c \in ColChoices}

IsTable(t) == "cols" \in DOMAIN t

\* pd.concat([old, self.df], axis=0, ignore_index=True, join="outer") with
\* only the rows of self.df kept
ConcatNewOnly(o, d) ==
    LET cols == o.cols \o SelectSeq(d.cols, LAMBDA c : c \notin Range(o.cols))
        ext(r) == [c \in Range(cols) |-> IF c \in DOMAIN r THEN r[c] ELSE NaN]
        rows == [i \in 1..Len(d.rows) |-> ext(d.rows[i])]
    IN  [cols |-> cols, index |-> RangeIndex(Len(rows)), rows |-> rows]

\* pd.concat([old, self.df], axis=0, ignore_index=True, join="outer")
Concat(o, d) ==
    LET cols == o.cols \o SelectSeq(d.cols, LAMBDA c : c \notin Range(o.cols))
        ext(r) == [c \in Range(cols) |-> IF c \in DOMAIN r THEN r[c] ELSE NaN]
        rows == [i \in 1..Len(o.rows) |-> ext(o.rows[i])]
                   \o [i \in 1..Len(d.rows) |-> ext(d.rows[i])]
    IN  [cols |-> cols, index |-> RangeIndex(Len(rows)), rows |-> rows]

\* the rows and labels of t at the positions K, in order
TakeRows(t, K) ==
    [cols |-> t.cols,
     index |-> [x \in 1..Cardinality(K) |-> t.index[Nth(K, x)]],
     rows |-> [x \in 1..Cardinality(K) |-> t.rows[Nth(K, x)]]]

\* drop_duplicates that drops nothing
DropDuplicatesNone(t) == t

\* drop_duplicates(subset=["ID"], keep="first")
DropDuplicatesFirst(t) ==
    TakeRows(t, {i \in 1..Len(t.rows) :
                    \A j \in 1..(i - 1) : t.rows[j][IdColumn] # t.rows[i][IdColumn]})

\* new.drop_duplicates(subset=["ID"], keep="last"): missing IDs are equal to
\* one another
DropDuplicates(t) ==
    TakeRows(t, {i \in 1..Len(t.rows) :
                    \A j \in (i + 1)..Len(t.rows) : t.rows[j][IdColumn] # t.rows[i][IdColumn]})

\* new.reset_index(drop=True, inplace=True)
ResetIndex(t) == [t EXCEPT !.index = RangeIndex(Len(t.rows))]

\* an instance and the table at `path` before any update_db
InitDb ==
    /\ disk \in Tables \cup {NoFile}
    /\ src \in Tables
    /\ df = NoDf
    /\ upc = "idle"
    /\ old = None
    /\ new = None
    /\ before = None
    /\ merges = 0
    /\ instances = 1

AtRest == upc \in {"idle", "returned", "raised"}

\* KeemPlot(path, ...): a new instance, for other data
Construct ==
    /\ AtRest
    /\ instances < MaxInstances
    /\ instances' = instances + 1
    /\ src' \in Tables
    /\ df' = NoDf
    /\ upc' = "idle"
    /\ before' = None
    /\ merges' = 0
    /\ UNCHANGED <<disk, old, new>>
    /\ UNCHANGED <<pvars, cvars, kvars>>

\* generate_db(): self.df is built
GenerateDb ==
    /\ AtRest
    /\ df' = src
    /\ upc' = "idle"
    /\ UNCHANGED <<disk, src, old, new, before, merges, instances>>
    /\ UNCHANGED <<pvars, cvars, kvars>>

\* update_db(path) is called
UpdateCall ==
    /\ AtRest
    /\ merges < MaxMerges
    /\ upc' = "read"
    /\ before' = disk
    /\ UNCHANGED <<disk, src, df, old, new, merges, instances>>
    /\ UNCHANGED <<pvars, cvars, kvars>>

\* update_db raises: its locals are gone
Raise ==
    /\ upc' = "raised"
    /\ old' = None
    /\ new' = None

\* old = pd.read_pickle(path)
ReadOk ==
    /\ upc = "read"
    /\ IsTable(disk)
    /\ old' = disk
    /\ upc' = "concat"
    /\ UNCHANGED <<disk, src, df, new, before, merges, instances>>
    /\ UNCHANGED <<pvars, cvars, kvars>>

\* pd.read_pickle(path) raises: no file, no valid pickle, or an I/O error
ReadFail ==
    /\ upc = "read"
    /\ Raise
    /\ UNCHANGED <<disk, src, df, before, merges, instances>>
    /\ UNCHANGED <<pvars, cvars, kvars>>

\* a concatenation that takes a missing self.df for a table without rows
ConcatStepEmptyDf ==
    /\ upc = "concat"
    /\ new' = IF df = NoDf THEN old ELSE Concat(old, df)
    /\ upc' = "dedup"
    /\ UNCHANGED <<disk, src, df, old, before, merges, instances>>
    /\ UNCHANGED <<pvars, cvars, kvars>>

\* new = pd.concat([old, self.df], ...); AttributeError without self.df
ConcatStep ==
    /\ upc = "concat"
    /\ IF df = NoDf
       THEN Raise
       ELSE /\ new' = Concat(old, df)
            /\ upc' = "dedup"
            /\ old' = old
    /\ UNCHANGED <<disk, src, df, before, merges, instances>>
    /\ UNCHANGED <<pvars, cvars, kvars>>

\* new = new.drop_duplicates(subset=["ID"], keep="last"); KeyError when new
\* has no column "ID"
DedupStep ==
    /\ upc = "dedup"
    /\ IF IdColumn \notin Range(new.cols)
       THEN Raise
       ELSE /\ new' = DropDuplicates(new)
            /\ upc' = "reset"
            /\ old' = old
    /\ UNCHANGED <<disk, src, df, before, merges, instances>>
    /\ UNCHANGED <<pvars, cvars, kvars>>

\* new.reset_index(drop=True, inplace=True)
ResetStep ==
    /\ upc = "reset"
    /\ new' = ResetIndex(new)
    /\ upc' = "write"
    /\ UNCHANGED <<disk, src, df, old, before, merges, instances>>
    /\ UNCHANGED <<pvars, cvars, kvars>>

\* new.to_pickle(path) writes the whole table; update_db returns
WriteOk ==
    /\ upc = "write"
    /\ disk' = new
    /\ upc' = "returned"
    /\ old' = None
    /\ new' = None
    /\ merges' = merges + 1
    /\ UNCHANGED <<src, df, before, instances>>
    /\ UNCHANGED <<pvars, cvars, kvars>>

\* new.to_pickle(path) raises: before the file is opened for writing (the
\* file is as it was) or after (the file is truncated or partly written)
WriteFail ==
    /\ upc = "write"
    /\ disk' \in {disk, Partial}
    /\ Raise
    /\ UNCHANGED <<src, df, before, merges, instances>>
    /\ UNCHANGED <<pvars, cvars, kvars>>

NextDb ==
    \/ Construct
    \/ GenerateDb
    \/ UpdateCall
    \/ ReadOk
    \/ ReadFail
    \/ ConcatStep
    \/ DedupStep
    \/ ResetStep
    \/ WriteOk
    \/ WriteFail

\* no README is being parsed while the table is worked on
InitTable == InitParser /\ InitDb /\ ConcIdle /\ KeemIdle
SpecDb == InitTable /\ [][NextDb]_vars

\* ------------------------------------------------------------------------
\* The block structure of a text, read off its marker lines alone
\* ------------------------------------------------------------------------
Fields(raw) == Split(StripNL(raw))
IsCommonMarker(raw) == StartsWith(Strip(StripNL(raw)), PARSE1)
IsGroupMarker(raw) == StartsWith(Strip(StripNL(raw)), PARSE2)
IsMarker(raw) == IsCommonMarker(raw) \/ IsGroupMarker(raw)

\* the block the text s ends in: a marker closes its own block and opens
\* its block otherwise
RECURSIVE BlockAfter(_)
BlockAfter(s) ==
    IF s = <<>> THEN "OUTSIDE"
    ELSE LET p == BlockAfter(SubSeq(s, 1, Len(s) - 1))
             l == s[Len(s)]
         IN  IF IsCommonMarker(l)
             THEN (IF p = "COMMON" THEN "OUTSIDE" ELSE "COMMON")
             ELSE IF IsGroupMarker(l)
             THEN (IF p = "GROUP" THEN "OUTSIDE" ELSE "GROUP")
             ELSE p

BlockBefore(s, i) == BlockAfter(SubSeq(s, 1, i - 1))

\* a marker of one block type met inside a block of the other type
Nested(s) ==
    \E i \in 1..Len(s) :
        \/ BlockBefore(s, i) = "COMMON" /\ IsGroupMarker(s[i])
        \/ BlockBefore(s, i) = "GROUP" /\ IsCommonMarker(s[i])

\* the last marker line before line i (0: none), the first after it
\* (Len(s) + 1: none)
MarkerBefore(s, i) == Max({0} \cup {k \in 1..(i - 1) : IsMarker(s[k])})
MarkerAfter(s, i) == Min({Len(s) + 1} \cup {k \in (i + 1)..Len(s) : IsMarker(s[k])})

\* GROUP-close events and GROUP-open events, by line number
GroupCloses(s) == {i \in 1..Len(s) : IsGroupMarker(s[i]) /\ BlockBefore(s, i) = "GROUP"}
GroupOpens(s) == {i \in 1..Len(s) : IsGroupMarker(s[i]) /\ BlockBefore(s, i) # "GROUP"}
CommonOpens(s) == {i \in 1..Len(s) : IsCommonMarker(s[i]) /\ BlockBefore(s, i) # "COMMON"}

\* balanced, non-nested blocks whose data lines have as many fields as the
\* header line of their block
WellFormed(s) ==
    /\ ~Nested(s)
    /\ BlockAfter(s) = "OUTSIDE"
    /\ \A i \in 1..Len(s) :
          (/\ ~IsMarker(s[i])
           /\ BlockBefore(s, i) # "OUTSIDE"
           /\ i - MarkerBefore(s, i) >= 2)
          => Len(Fields(s[i])) = Len(Fields(s[MarkerBefore(s, i) + 1]))

\* the line raw may follow the text s in a text made of non-nested blocks
\* and nothing else
FitsBlocks(s, raw) ==
    LET b == BlockAfter(s)
    IN  /\ b = "OUTSIDE" => IsMarker(raw)
        /\ b = "COMMON" => ~IsGroupMarker(raw)
        /\ b = "GROUP" => ~IsCommonMarker(raw)

\* a text of non-nested blocks, read line by line
ReadBlockLine ==
    \E raw \in BlockLineSet :
        /\ Len(lines) < MaxBlockLines
        /\ FitsBlocks(lines, raw)
        /\ ParseLine(raw)

NextBlocks == ReadBlockLine \/ EndOfFile
SpecBlocks == Init /\ [][NextBlocks]_vars

\* ------------------------------------------------------------------------
\* C1: for every well-formed text, when parser finishes the length of the
\* header equals the number of columns of every row of every group.
\* ------------------------------------------------------------------------
C1_HeaderLenIsRowLen ==
    (ppc = "done" /\ WellFormed(lines)) =>
        \A g \in 1..Len(infos) : \A r \in 1..Len(infos[g]) :
            Len(infos[g][r]) = Len(header)

\* ------------------------------------------------------------------------
\* C2: a line that starts with a marker, in whichever state it is read, is
\* never stored as header, common row or group data row.
\* ------------------------------------------------------------------------
C2_MarkerLineNeverStored ==
    [][(lines' # lines /\ IsMarker(lines'[Len(lines')])) =>
          /\ header' = header
          /\ common' = common
          /\ data' \in {data, <<>>}]_vars

\* ------------------------------------------------------------------------
\* C3: one COMMON block (header H, common lines ending in C) followed by one
\* GROUP block (header G, data lines r1..rn) parses to the header
\* fields(H) ++ fields(G) with "feed" renamed "diet", and to one group whose
\* rows are fields(C) ++ fields(ri) in line order.
\* ------------------------------------------------------------------------
\* the line that closes the COMMON block of such a text
C3Close(s) == MarkerAfter(s, 1)

IsC3Form(s) ==
    /\ Len(s) >= 7
    /\ IsCommonMarker(s[1])
    /\ C3Close(s) >= 4
    /\ C3Close(s) + 3 <= Len(s)
    /\ IsCommonMarker(s[C3Close(s)])
    /\ IsGroupMarker(s[C3Close(s) + 1])
    /\ IsGroupMarker(s[Len(s)])
    /\ \A i \in (C3Close(s) + 2)..(Len(s) - 1) : ~IsMarker(s[i])

C3_OneCommonOneGroup ==
    (ppc = "done" /\ IsC3Form(lines)) =>
        LET k == C3Close(lines)
            hg == Fields(lines[2]) \o Fields(lines[k + 2])
            n == Len(lines) - k - 3
        IN  /\ Len(header) = Len(hg)
            /\ \A i \in 1..Len(hg) :
                  header[i] = IF hg[i] = FEED THEN DIET ELSE hg[i]
            /\ Len(infos) = 1
            /\ Len(infos[1]) = n
            /\ \A i \in 1..n :
                  infos[1][i] = Fields(lines[k - 1]) \o Fields(lines[k + 2 + i])

\* C3: two common lines, a "feed" column and two data rows, parsed to the end
C3_Witness ==
    /\ ppc = "done"
    /\ IsC3Form(lines)
    /\ C3Close(lines) = 5
    /\ lines[3] # lines[4]
    /\ Len(lines) = 10
    /\ FEED \in {Fields(lines[7])[i] : i \in 1..Len(Fields(lines[7]))}
    /\ Len(infos) = 1 /\ Len(infos[1]) = 2

\* ------------------------------------------------------------------------
\* C4: when a COMMON block is opened more than once, the GROUP blocks after
\* the most recently opened COMMON block take their common row and the
\* start of their header from that block.
\* ------------------------------------------------------------------------
\* "feed" read as "diet"
Renamed(h) == [i \in 1..Len(h) |-> IF h[i] = FEED THEN DIET ELSE h[i]]

\* the most recently opened COMMON block: its opening and closing lines
LastCommonOpen(s) == Max(CommonOpens(s))
LastCommonClose(s) == MarkerAfter(s, LastCommonOpen(s))
\* the GROUP blocks opened after it
GroupsAfter(s) == {g \in GroupOpens(s) : g > LastCommonClose(s)}
HasHeaderLine(s, g) == MarkerAfter(s, g) - g >= 2

\* the header lines of the GROUP blocks opened at the lines in S, in order
RECURSIVE HeaderLinesOf(_, _)
HeaderLinesOf(s, S) ==
    IF S = {} THEN <<>>
    ELSE LET g == Min(S)
         IN  (IF HasHeaderLine(s, g) THEN Fields(s[g + 1]) ELSE <<>>)
                 \o HeaderLinesOf(s, S \ {g})

\* the rows of the j-th GROUP block of a text of non-nested blocks
RowsOf(j) == IF j <= Len(infos) THEN infos[j] ELSE data

\* header and rows of the following GROUP blocks come from the header
\* fields hd and the common row cr and from nothing else
GroupsTakeFrom(s, hd, cr) ==
    /\ (\E g \in GroupsAfter(s) : HasHeaderLine(s, g)) =>
           header = Renamed(hd \o HeaderLinesOf(s, GroupsAfter(s)))
    /\ \A j \in 1..Cardinality(GroupOpens(s)) :
          LET g == Nth(GroupOpens(s), j)
              n == IF MarkerAfter(s, g) - g - 2 > 0
                   THEN MarkerAfter(s, g) - g - 2 ELSE 0
          IN  g > LastCommonClose(s) =>
                 /\ Len(RowsOf(j)) = n
                 /\ \A k \in 1..n : RowsOf(j)[k] = cr \o Fields(s[g + 1 + k])

\* C4 as claimed: whatever the most recently opened COMMON block contains,
\* nothing of an earlier COMMON block reaches the GROUP blocks after it
C4_LatestCommonWhateverItHolds ==
    LET o == LastCommonOpen(lines)
        c == LastCommonClose(lines)
    IN  (Cardinality(CommonOpens(lines)) >= 2 /\ c <= Len(lines)) =>
            GroupsTakeFrom(lines,
                           IF c - o >= 2 THEN Fields(lines[o + 1]) ELSE <<>>,
                           IF c - o >= 3 THEN Fields(lines[c - 1]) ELSE <<>>)

\* C4 as amended: when the most recently opened COMMON block holds a header
\* line and a common line, the GROUP blocks after it take header start and
\* common row from it and nothing from an earlier COMMON block
C4_LatestCommonWithBothLines ==
    LET o == LastCommonOpen(lines)
        c == LastCommonClose(lines)
    IN  (Cardinality(CommonOpens(lines)) >= 2 /\ c <= Len(lines) /\ c - o >= 3) =>
            GroupsTakeFrom(lines, Fields(lines[o + 1]), Fields(lines[c - 1]))

\* C4: two full COMMON blocks that differ, then a GROUP block with a row
C4_Witness ==
    LET o == LastCommonOpen(lines)
        c == LastCommonClose(lines)
    IN  /\ Cardinality(CommonOpens(lines)) >= 2
        /\ c <= Len(lines) /\ c - o >= 3
        /\ MarkerAfter(lines, 1) = 4
        /\ lines[2] # lines[o + 1]
        /\ lines[3] # lines[c - 1]
        /\ level = 2
        /\ Len(data) >= 1

\* ------------------------------------------------------------------------
\* C5: every group holds exactly the data rows read between the GROUP
\* marker that opened it and the GROUP marker that closed it, in line
\* order, and there is one group per GROUP-close event, for any sequence
\* of marker and content lines.
\* ------------------------------------------------------------------------
EndsWith(row, f) ==
    Len(row) >= Len(f) /\ SubSeq(row, Len(row) - Len(f) + 1, Len(row)) = f

C5_GroupHoldsItsOwnRows ==
    /\ Len(infos) = Cardinality(GroupCloses(lines))
    /\ \A j \in 1..Len(infos) :
          LET c == Nth(GroupCloses(lines), j)
              o == MarkerBefore(lines, c)
              n == IF c - o - 2 > 0 THEN c - o - 2 ELSE 0
          IN  /\ Len(infos[j]) = n
              /\ \A k \in 1..n : EndsWith(infos[j][k], Fields(lines[o + 1 + k]))

\* ------------------------------------------------------------------------
\* The identifiers of a table
\* ------------------------------------------------------------------------
HasIdColumn(t) == IdColumn \in Range(t.cols)
Ids(t) ==
    IF HasIdColumn(t)
    THEN {t.rows[i][IdColumn] : i \in 1..Len(t.rows)} \ {NaN}
    ELSE {}
RowsWithId(t, id) == {i \in 1..Len(t.rows) : t.rows[i][IdColumn] = id}

\* ------------------------------------------------------------------------
\* C6: update_db run twice in a row with the same new table leaves the
\* persisted table as the first run left it.
\* ------------------------------------------------------------------------
C6_SecondUpdateChangesNothing ==
    (upc = "returned" /\ merges >= 2) => disk = before

\* C6: a second update_db returned, the table holding IDs of both sides
C6_Witness ==
    /\ upc = "returned"
    /\ merges = 2
    /\ Ids(df) # {}
    /\ Ids(disk) \ Ids(df) # {}

\* ------------------------------------------------------------------------
\* C7: after an update_db that returned, the persisted table holds every
\* ID of the prior persisted table and of the new table, each exactly once.
\* ------------------------------------------------------------------------
C7_EveryIdExactlyOnce ==
    upc = "returned" =>
        /\ Ids(disk) = Ids(before) \cup Ids(df)
        /\ \A id \in Ids(disk) : Cardinality(RowsWithId(disk, id)) = 1

\* C7: an update_db returned with an ID on both sides and one only existing
C7_Witness ==
    /\ upc = "returned"
    /\ Ids(before) \cap Ids(df) # {}
    /\ Ids(before) \ Ids(df) # {}

\* ------------------------------------------------------------------------
\* C8: the row update_db keeps for an ID is the rightmost row with that ID
\* in existing ++ new, its cells unchanged.
\* ------------------------------------------------------------------------
C8_RightmostRowKept ==
    upc = "returned" =>
        \A i \in 1..Len(disk.rows) :
            LET id == disk.rows[i][IdColumn]
                all == before.rows \o df.rows
                occ == {k \in 1..Len(all) :
                           IdColumn \in DOMAIN all[k] /\ all[k][IdColumn] = id}
            IN  id # NaN =>
                    \A c \in Range(disk.cols) :
                        disk.rows[i][c] = IF c \in DOMAIN all[Max(occ)]
                                          THEN all[Max(occ)][c] ELSE NaN

\* C8: an update_db returned with an ID whose two rows differ, and an ID
\* that only the existing table has
C8_Witness ==
    /\ upc = "returned"
    /\ Ids(before) \ Ids(df) # {}
    /\ \E i \in 1..Len(before.rows), j \in 1..Len(df.rows) :
          /\ HasIdColumn(before) /\ HasIdColumn(df)
          /\ before.rows[i][IdColumn] = df.rows[j][IdColumn]
          /\ "v" \in DOMAIN before.rows[i] /\ "v" \in DOMAIN df.rows[j]
          /\ before.rows[i]["v"] # df.rows[j]["v"]

\* ------------------------------------------------------------------------
\* C9: when update_db fails, at whichever step, the persisted table is what
\* it was before the call.
\* ------------------------------------------------------------------------
C9_FailureLeavesTable ==
    upc = "raised" => disk = before

\* ------------------------------------------------------------------------
\* C10: update_db fails, and writes nothing, whenever the column "ID" is
\* absent from the existing table or from the new table.
\* ------------------------------------------------------------------------
C10_NoIdColumnNoUpdate ==
    upc \in {"write", "returned"} =>
        HasIdColumn(before) /\ HasIdColumn(df)

\* ------------------------------------------------------------------------
\* Two update_db runs on the same path
\* ------------------------------------------------------------------------
MaxConcRows == 1

Callers == {"a", "b"}

\* the tables the two runs work on: they have a column "ID"
ConcTables == {t \in Tables : IdColumn \in Range(t.cols) /\ Len(t.rows) <= MaxConcRows}

\* a table is at `path`, generate_db has run on both instances
InitConc ==
    /\ InitParser
    /\ KeemIdle
    /\ disk \in ConcTables
    /\ disk0 = disk
    /\ serialized \in BOOLEAN
    /\ runs \in [Callers -> {[pc |-> "idle", df |-> t, old |-> None, new |-> None] :
                               t \in ConcTables}]
    /\ src = NoDf
    /\ df = NoDf
    /\ upc = "idle"
    /\ old = None
    /\ new = None
    /\ before = None
    /\ merges = 0
    /\ instances = 0

RunAtRest(c) == runs[c].pc \in {"idle", "returned", "raised"}

\* what a step of run c leaves alone
RunFrame ==
    /\ UNCHANGED <<serialized, disk0>>
    /\ UNCHANGED <<src, df, upc, old, new, before, merges, instances>>
    /\ UNCHANGED <<pvars, kvars>>

\* update_db(path) is called on instance c; callers that serialize wait for
\* the other run to be over
CallRun(c) ==
    /\ runs[c].pc = "idle"
    /\ serialized => \A o \in Callers \ {c} : RunAtRest(o)
    /\ runs' = [runs EXCEPT ![c].pc = "read"]
    /\ UNCHANGED disk
    /\ RunFrame

\* update_db of c raises: its locals are gone
RaiseRun(c) == runs' = [runs EXCEPT ![c].pc = "raised", ![c].old = None, ![c].new = None]

\* a read that returns the table found before the runs began
ReadOkRunCached(c) ==
    /\ runs[c].pc = "read"
    /\ IsTable(disk)
    /\ runs' = [runs EXCEPT ![c].old = disk0, ![c].pc = "concat"]
    /\ UNCHANGED disk
    /\ RunFrame

\* old = pd.read_pickle(path)
ReadOkRun(c) ==
    /\ runs[c].pc = "read"
    /\ IsTable(disk)
    /\ runs' = [runs EXCEPT ![c].old = disk, ![c].pc = "concat"]
    /\ UNCHANGED disk
    /\ RunFrame

\* pd.read_pickle(path) raises
ReadFailRun(c) ==
    /\ runs[c].pc = "read"
    /\ RaiseRun(c)
    /\ UNCHANGED disk
    /\ RunFrame

\* new = pd.concat([old, self.df], ...)
ConcatRun(c) ==
    /\ runs[c].pc = "concat"
    /\ IF runs[c].df = NoDf
       THEN RaiseRun(c)
       ELSE runs' = [runs EXCEPT ![c].new = Concat(runs[c].old, runs[c].df),
                                 ![c].pc = "dedup"]
    /\ UNCHANGED disk
    /\ RunFrame

\* new = new.drop_duplicates(subset=["ID"], keep="last")
DedupRun(c) ==
    /\ runs[c].pc = "dedup"
    /\ IF IdColumn \notin Range(runs[c].new.cols)
       THEN RaiseRun(c)
       ELSE runs' = [runs EXCEPT ![c].new = DropDuplicates(runs[c].new),
                                 ![c].pc = "reset"]
    /\ UNCHANGED disk
    /\ RunFrame

\* new.reset_index(drop=True, inplace=True)
ResetRun(c) ==
    /\ runs[c].pc = "reset"
    /\ runs' = [runs EXCEPT ![c].new = ResetIndex(runs[c].new), ![c].pc = "write"]
    /\ UNCHANGED disk
    /\ RunFrame

\* new.to_pickle(path) writes the whole table; update_db returns
WriteOkRun(c) ==
    /\ runs[c].pc = "write"
    /\ disk' = runs[c].new
    /\ runs' = [runs EXCEPT ![c].pc = "returned", ![c].old = None, ![c].new = None]
    /\ RunFrame

\* new.to_pickle(path) raises, before or after the file is opened for writing
WriteFailRun(c) ==
    /\ runs[c].pc = "write"
    /\ disk' \in {disk, Partial}
    /\ RaiseRun(c)
    /\ RunFrame

NextConc ==
    \E c \in Callers :
        \/ CallRun(c)
        \/ ReadOkRun(c)
        \/ ReadFailRun(c)
        \/ ConcatRun(c)
        \/ DedupRun(c)
        \/ ResetRun(c)
        \/ WriteOkRun(c)
        \/ WriteFailRun(c)

SpecConc == InitConc /\ [][NextConc]_vars

\* ------------------------------------------------------------------------
\* KeemPlot.__init__: numbers as exact fractions
\* ------------------------------------------------------------------------
MaxNorm == 2
MaxThreshold == 2
MaxFinalLen == 4
MaxImages == 2
MaxGroupNumber == 3
MaxKeemLines == 8

RECURSIVE GCD(_, _)
GCD(a, b) == IF b = 0 THEN a ELSE GCD(b, a % b)

\* the number n / d, d > 0 and n >= 0, in lowest terms
Frac(n, d) == LET g == GCD(n, d) IN [num |-> n \div g, den |-> d \div g]
Zero == Frac(0, 1)
Less(a, b) == a.num * b.den < b.num * a.den

\* image.max(axis=0): the maximum of every column of a 2-D array
ColumnMax(image) ==
    [x \in 1..Len(image[1]) |->
        CHOOSE m \in {image[y][x] : y \in 1..Len(image)} :
            \A y \in 1..Len(image) : image[y][x] <= m]

\* arr / self._max_value
Normalize(arr, mv) == [x \in 1..Len(arr) |-> Frac(arr[x], mv)]

\* np.interp(x, np.arange(la), array) at x = p / q, 0 <= x <= la - 1
InterpAt(array, p, q) ==
    LET i == p \div q
        rem == p % q
        y0 == array[i + 1]
    IN  IF rem = 0 THEN y0
        ELSE LET y1 == array[i + 2]
             IN  Frac(y0.num * y1.den * (q - rem) + y1.num * y0.den * rem,
                      y0.den * y1.den * q)

\* a resampling that hands the array back as it is
Interp1dSame(array, new_len) == array

\* _interp1d: np.linspace(0, la - 1, num=new_len) is the points
\* (j - 1)(la - 1) / (new_len - 1), and the single point 0 when new_len is 1
Interp1d(array, new_len) ==
    LET la == Len(array)
    IN  [j \in 1..new_len |->
            IF new_len = 1 THEN array[1]
            ELSE InterpAt(array, (j - 1) * (la - 1), new_len - 1)]

\* self._threshold = threshold / max_value
RelThreshold(th, mv) == Frac(th, mv)

\* a list entry that is the array itself, seen after the array was changed
NoCopy(arr, later) == later

\* np.copy(arr): the list entry keeps the values arr has now, whatever is
\* done to arr later
Copy(arr, later) == arr

\* a thresholding that zeroes the elements above t
ThresholdAbove(arr_int, t) ==
    [p \in 1..Len(arr_int) |-> IF Less(t, arr_int[p]) THEN Zero ELSE arr_int[p]]

\* arr_int[arr_int < self._threshold] = 0
Threshold(arr_int, t) ==
    [p \in 1..Len(arr_int) |-> IF Less(arr_int[p], t) THEN Zero ELSE arr_int[p]]

BarcodeDivisor == 20

\* create_barcode: arr stacked len(arr) // 20 times, once when shorter
create_barcode(arr) ==
    LET height == IF Len(arr) >= BarcodeDivisor THEN Len(arr) \div BarcodeDivisor ELSE 1
    IN  [k \in 1..height |-> arr]

\* seq[i] as Python and numpy index a sequence: from the end when i < 0
InRange(seq, i) == -Len(seq) <= i /\ i < Len(seq)
PyIndex(seq, i) == IF i >= 0 THEN seq[i + 1] ELSE seq[Len(seq) + i + 1]

\* np.array(self.infos): a 3-D array when all groups have as many rows and
\* all rows as many fields; no such array exists otherwise
Regular(groups) ==
    /\ \A g, h \in 1..Len(groups) : Len(groups[g]) = Len(groups[h])
    /\ \A g, h \in 1..Len(groups) :
          \A r \in 1..Len(groups[g]) : \A q \in 1..Len(groups[h]) :
              Len(groups[g][r]) = Len(groups[h][q])

\* what np.array makes of groups that are not regular, where it makes
\* anything: a 2-D array of lists when the groups have as many rows ("cells"),
\* a 1-D array of lists of rows otherwise ("lists")
ArrayKind(groups) ==
    IF Regular(groups) THEN "regular"
    ELSE IF \A g, h \in 1..Len(groups) : Len(groups[g]) = Len(groups[h]) THEN "cells"
    ELSE "lists"

NoneCell == <<>>

\* the width of the widest row
MaxWidth(rows) ==
    CHOOSE m \in {Len(rows[i]) : i \in 1..Len(rows)} :
        \A i \in 1..Len(rows) : Len(rows[i]) <= m

\* pd.DataFrame(columns=h, data=rows) raises ValueError: a 2-D array must be
\* as wide as the header, an empty 1-D array counting as one column; a 1-D
\* array of lists is one column; a list of lists is as wide as its widest
\* row, an empty list fits any header
FrameFails(h, kind, rows) ==
    IF kind = "regular"
    THEN (IF rows = <<>> THEN 1 ELSE Len(rows[1])) # Len(h)
    ELSE IF kind = "cells"
    THEN Len(h) # 1
    ELSE rows # <<>> /\ MaxWidth(rows) # Len(h)

\* the rows of the frame pd.DataFrame(columns=h, data=rows) builds: the rows
\* of a 2-D array, one cell holding each list of a 1-D array of lists, the
\* rows of a list of lists padded with None to the widest
FrameRows(h, kind, rows) ==
    IF kind = "regular" THEN rows
    ELSE IF kind = "cells" THEN [i \in 1..Len(rows) |-> <<rows[i]>>]
    ELSE [i \in 1..Len(rows) |->
             [c \in 1..Len(h) |-> IF c <= Len(rows[i]) THEN rows[i][c] ELSE NoneCell]]

\* the images of a directory, as io.imread(...)[0,:,:] returns them
ImageTall == <<<<0, 2>>, <<1, 0>>>>
ImageWide == <<<<2, 0, 1, 1, 2>>>>
ImageDot == <<<<1>>>>
ImageRamp == <<<<0, 1, 2>>, <<0, 0, 0>>>>
ImageSet == {ImageTall, ImageWide, ImageDot, ImageRamp}
KeemImages == {ImageTall, ImageWide}

\* the arguments max_value, threshold and final_len
ArgSet == [max_value : 1..MaxNorm, threshold : 0..MaxThreshold, final_len : 0..MaxFinalLen]
KeemArgs == {[max_value |-> 2, threshold |-> 1, final_len |-> 3]}
GroupNumbers == (1 - MaxGroupNumber)..MaxGroupNumber

\* KeemPlot(path, ...) is called: README.txt is about to be parsed
KeemStart ==
    /\ kpc = "parse"
    /\ group_number = 1
    /\ dbdata = <<>>
    /\ max_value = 1
    /\ final_len = 0
    /\ threshold = 0
    /\ Raw_Arrays = <<>>
    /\ flatdata_ni = <<>>
    /\ flatdata = <<>>
    /\ flatdata_ut = <<>>
    /\ barcodes = <<>>
    /\ self_df = NoDf

InitKeem == InitParser /\ DbIdle /\ ConcIdle /\ KeemStart

\* README.txt, a text of non-nested blocks, is read line by line
ReadKeemLine ==
    \E raw \in BlockLineSet :
        /\ Len(lines) < MaxKeemLines
        /\ FitsBlocks(lines, raw)
        /\ ParseLine(raw)

\* what a step of __init__ after the parser leaves alone
KeemFrame == UNCHANGED <<pvars, dbvars, cvars>>

\* self.infos = np.array(self.infos)
ToArray ==
    /\ kpc = "parse"
    /\ ppc = "done"
    /\ kpc' = "array"
    /\ UNCHANGED <<group_number, dbdata, max_value, final_len, threshold, Raw_Arrays,
                   flatdata_ni, flatdata, flatdata_ut, barcodes, self_df>>
    /\ KeemFrame

\* np.array raises on groups that are not regular (numpy 1.24 and later)
ToArrayFail ==
    /\ kpc = "parse"
    /\ ppc = "done"
    /\ ~Regular(infos)
    /\ kpc' = "array_raised"
    /\ UNCHANGED <<group_number, dbdata, max_value, final_len, threshold, Raw_Arrays,
                   flatdata_ni, flatdata, flatdata_ut, barcodes, self_df>>
    /\ KeemFrame

\* self.dbdata = self.metadata.infos[group_number-1], then the arguments
\* are kept; IndexError when the index is out of range
SelectGroupFrom(A) ==
    \E k \in GroupNumbers : \E a \in A :
        /\ kpc = "array"
        /\ group_number' = k
        /\ IF InRange(infos, k - 1)
           THEN /\ dbdata' = PyIndex(infos, k - 1)
                /\ max_value' = a.max_value
                /\ final_len' = a.final_len
                /\ threshold' = a.threshold
                /\ kpc' = "load"
           ELSE /\ kpc' = "select_raised"
                /\ UNCHANGED <<dbdata, max_value, final_len, threshold>>
        /\ UNCHANGED <<Raw_Arrays, flatdata_ni, flatdata, flatdata_ut, barcodes, self_df>>
        /\ KeemFrame

SelectGroup == SelectGroupFrom(KeemArgs)

\* self.Raw_Arrays = self._gen_raw_arrays(path)
LoadImagesFrom(I) ==
    /\ kpc = "load"
    /\ Raw_Arrays' \in SeqsUpTo(I, MaxImages)
    /\ kpc' = "process"
    /\ UNCHANGED <<group_number, dbdata, max_value, final_len, threshold,
                   flatdata_ni, flatdata, flatdata_ut, barcodes, self_df>>
    /\ KeemFrame

LoadImages == LoadImagesFrom(KeemImages)

\* one iteration of `for _, image in enumerate(Raw_data)`
ProcessImage ==
    /\ kpc = "process"
    /\ Len(flatdata_ni) < Len(Raw_Arrays)
    /\ LET image == Raw_Arrays[Len(flatdata_ni) + 1]
           arr == Normalize(ColumnMax(image), max_value)
           arr_int == Interp1d(arr, final_len)
           zeroed == Threshold(arr_int, RelThreshold(threshold, max_value))
       IN  /\ flatdata_ni' = Append(flatdata_ni, Copy(arr, arr))
           /\ flatdata_ut' = Append(flatdata_ut, Copy(arr_int, zeroed))
           /\ flatdata' = Append(flatdata, Copy(zeroed, zeroed))
           /\ barcodes' = Append(barcodes, create_barcode(zeroed))
    /\ UNCHANGED <<kpc, group_number, dbdata, max_value, final_len, threshold, Raw_Arrays,
                   self_df>>
    /\ KeemFrame

\* the tuple _process returns
ProcessResult(ni, fd, ut, bc) == <<ni, fd, ut, bc>>

\* return flatdata_ni, flatdata, flatdata_ut, barcodes, unpacked into
\* self.flatdata_ni, self.flatdata, self.flatdata_ut, self.barcodes
ProcessReturn ==
    /\ kpc = "process"
    /\ Len(flatdata_ni) = Len(Raw_Arrays)
    /\ LET ret == ProcessResult(flatdata_ni, flatdata, flatdata_ut, barcodes)
       IN  /\ flatdata_ni' = ret[1]
           /\ flatdata' = ret[2]
           /\ flatdata_ut' = ret[3]
           /\ barcodes' = ret[4]
    /\ kpc' = "ready"
    /\ UNCHANGED <<group_number, dbdata, max_value, final_len, threshold, Raw_Arrays,
                   self_df>>
    /\ KeemFrame

\* generate_db(): the frame of header and dbdata, then the two columns of
\* vectors; ValueError when the frame cannot be built or a list is not as
\* long as the frame
GenerateDbBuild ==
    /\ kpc = "ready"
    /\ IF FrameFails(header, ArrayKind(infos), dbdata)
       THEN kpc' = "gen_raised" /\ self_df' = self_df
       ELSE LET meta == FrameRows(header, ArrayKind(infos), dbdata)
            IN  IF Len(flatdata_ut) # Len(meta) \/ Len(flatdata_ni) # Len(meta)
                THEN kpc' = "gen_raised" /\ self_df' = self_df
                ELSE /\ self_df' = [header |-> header, meta |-> meta,
                                    array_vals |-> flatdata_ut,
                                    array_vals_ni |-> flatdata_ni]
                     /\ kpc' = "generated"
    /\ UNCHANGED <<group_number, dbdata, max_value, final_len, threshold, Raw_Arrays,
                   flatdata_ni, flatdata, flatdata_ut, barcodes>>
    /\ KeemFrame

NextKeem ==
    \/ ReadKeemLine
    \/ EndOfFile
    \/ ToArray
    \/ ToArrayFail
    \/ SelectGroup
    \/ LoadImages
    \/ ProcessImage
    \/ ProcessReturn
    \/ GenerateDbBuild

SpecKeem == InitKeem /\ [][NextKeem]_vars

\* _process is entered: the README '*-*\n*-*\n' has been parsed, its one
\* group selected, the arguments kept and the images read
InitProcess ==
    /\ lines = <<LGroup, LGroup>>
    /\ ppc = "done"
    /\ level = 0
    /\ first_line = TRUE
    /\ header = <<>>
    /\ common = <<>>
    /\ data = <<>>
    /\ infos = << <<>> >>
    /\ DbIdle
    /\ ConcIdle
    /\ kpc = "process"
    /\ group_number = 1
    /\ dbdata = <<>>
    /\ \E a \in ArgSet :
          /\ max_value = a.max_value
          /\ final_len = a.final_len
          /\ threshold = a.threshold
    /\ Raw_Arrays \in SeqsUpTo(ImageSet, MaxImages)
    /\ flatdata_ni = <<>>
    /\ flatdata = <<>>
    /\ flatdata_ut = <<>>
    /\ barcodes = <<>>
    /\ self_df = NoDf

NextProcess == ProcessImage \/ ProcessReturn

SpecProcess == InitProcess /\ [][NextProcess]_vars

\* ------------------------------------------------------------------------
\* C13: when the text ends inside a GROUP or COMMON block, parser returns,
\* the rows of the unclosed GROUP block enter no group and the groups closed
\* earlier stay as they were.
\* ------------------------------------------------------------------------
C13_OpenBlockDroppedAtEnd ==
    [][(ppc = "loop" /\ ppc' = "done" /\ BlockAfter(lines) # "OUTSIDE") =>
          /\ infos' = infos
          /\ Len(infos') = Cardinality(GroupCloses(lines'))
          /\ data' = data]_vars

\* C13: the text ended inside a GROUP block that holds a row, after a group
\* was closed
C13_Witness ==
    /\ ppc = "done"
    /\ BlockAfter(lines) = "GROUP"
    /\ data # <<>>
    /\ infos # <<>>

\* ------------------------------------------------------------------------
\* C18: a GROUP block opened and closed with no data row appends one empty
\* group, which keeps its place in the sequence of groups.
\* ------------------------------------------------------------------------
C18_EmptyBlockEmptyGroup ==
    /\ Len(infos) = Cardinality(GroupCloses(lines))
    /\ \A j \in 1..Len(infos) :
          LET c == Nth(GroupCloses(lines), j)
          IN  c - MarkerBefore(lines, c) <= 2 => infos[j] = <<>>

\* ------------------------------------------------------------------------
\* C19: a line without a marker read outside any block changes neither the
\* state nor header, common row, row accumulator or groups.
\* ------------------------------------------------------------------------
C19_OutsideLineIgnored ==
    [][(lines' # lines /\ BlockAfter(lines) = "OUTSIDE"
           /\ ~IsMarker(lines'[Len(lines')])) =>
          UNCHANGED <<level, first_line, header, common, data, infos>>]_vars

\* C19: such a line was read after a group with a row was closed
C19_Witness ==
    /\ Len(lines) >= 1
    /\ ~IsMarker(lines[Len(lines)])
    /\ BlockBefore(lines, Len(lines)) = "OUTSIDE"
    /\ level = 0
    /\ \E j \in 1..Len(infos) : infos[j] # <<>>

\* ------------------------------------------------------------------------
\* C20: the new table exists only after generate_db: an update_db called
\* before it raises and leaves the persisted table as it was, and update_db
\* never gets as far as writing unless generate_db has run on the instance.
\* ------------------------------------------------------------------------
C20_UpdateNeedsGenerateDb ==
    /\ df = NoDf => upc \notin {"dedup", "reset", "write", "returned"}
    /\ (df = NoDf /\ upc = "raised") => disk = before

\* C20: update_db was called on an instance without self.df, read a table
\* and raised
C20_Witness ==
    /\ df = NoDf
    /\ upc = "raised"
    /\ IsTable(before)
    /\ instances = 2

\* ------------------------------------------------------------------------
\* C12: update_db has no concurrency control of its own. When the callers
\* serialize the two runs and both return, the persisted table holds every
\* identifier of the table found and of both new tables; two runs that are
\* not serialized reach a lost update when both read before either writes.
\* ------------------------------------------------------------------------
C12_SerializedLosesNoId ==
    (serialized /\ \A c \in Callers : runs[c].pc = "returned") =>
        /\ IsTable(disk)
        /\ Ids(disk) = Ids(disk0) \cup UNION {Ids(runs[c].df) : c \in Callers}

\* C12: both runs returned, not serialized, and the persisted table lacks an
\* identifier that one of them merged
C12_Witness ==
    /\ ~serialized
    /\ \A c \in Callers : runs[c].pc = "returned"
    /\ IsTable(disk)
    /\ \E c \in Callers : \E id \in Ids(runs[c].df) : id \notin Ids(disk)

\* ------------------------------------------------------------------------
\* C11: group_number = k selects the k-th parsed group, counted from 1, when
\* 1 <= k <= number of groups, and construction fails with a range error,
\* selecting no group, for every other k.
\* ------------------------------------------------------------------------
C11_GroupNumberInRangeOrError ==
    /\ kpc \in {"load", "process", "ready", "generated", "gen_raised"} =>
          /\ 1 <= group_number
          /\ group_number <= Len(infos)
          /\ dbdata = infos[group_number]
    /\ kpc = "select_raised" => (group_number < 1 \/ group_number > Len(infos))

C15_ThresholdMonotone ==
    \A i \in 1..Len(flatdata) : \A t2 \in threshold..MaxThreshold :
        \A p \in 1..Len(flatdata[i]) :
            flatdata[i][p] = Zero =>
                Threshold(flatdata_ut[i], RelThreshold(t2, max_value))[p] = Zero

\* C15: one position was zeroed at the threshold of the instance, another
\* one is kept at it and zeroed at a higher threshold
C15_Witness ==
    /\ kpc = "ready"
    /\ \E i \in 1..Len(flatdata) : \E p, q \in 1..Len(flatdata[i]) :
          /\ flatdata_ut[i][p] # Zero
          /\ flatdata[i][p] = Zero
          /\ flatdata[i][q] # Zero
          /\ Threshold(flatdata_ut[i], RelThreshold(MaxThreshold, max_value))[q] = Zero

\* ------------------------------------------------------------------------
\* C16: the thresholded vector is the resampled vector with exactly the
\* elements strictly below threshold / max_value replaced by 0, and the raw
\* and the resampled vector stored for the image are what they were before
\* the thresholding.
\* ------------------------------------------------------------------------
C16_ThresholdedFromResampled ==
    \A i \in 1..Len(flatdata) :
        LET raw == Normalize(ColumnMax(Raw_Arrays[i]), max_value)
            ut == flatdata_ut[i]
        IN  /\ Len(flatdata[i]) = Len(ut)
            /\ \A p \in 1..Len(ut) :
                  flatdata[i][p] = IF ut[p].num * max_value < threshold * ut[p].den
                                   THEN Zero ELSE ut[p]
            /\ ut = Interp1d(raw, final_len)
            /\ flatdata_ni[i] = raw

\* C16: an element equal to threshold / max_value was kept and a smaller
\* element, not zero, was replaced by 0
C16_Witness ==
    /\ kpc = "ready"
    /\ \E i \in 1..Len(flatdata) : \E p, q \in 1..Len(flatdata[i]) :
          /\ flatdata_ut[i][p] = RelThreshold(threshold, max_value)
          /\ flatdata[i][p] = flatdata_ut[i][p]
          /\ flatdata[i][p] # Zero
          /\ flatdata_ut[i][q] # Zero
          /\ flatdata[i][q] = Zero

\* ------------------------------------------------------------------------
\* C17: _process returns four lists with one entry per image, in the order
\* of the images, and generate_db builds one row per row of the selected
\* group: row i has the metadata of row i of the group, the resampled
\* vector of image i as array_vals and its raw vector as array_vals_ni.
\* Stated for a well-formed README and a selected group of at least one
\* row, with as many images as rows, among groups that np.array turns into
\* one 3-D array.
\* ------------------------------------------------------------------------
C17_OneRowPerGroupRow ==
    /\ kpc \in {"ready", "generated", "gen_raised"} =>
          /\ Len(flatdata_ni) = Len(Raw_Arrays)
          /\ Len(flatdata) = Len(Raw_Arrays)
          /\ Len(flatdata_ut) = Len(Raw_Arrays)
          /\ Len(barcodes) = Len(Raw_Arrays)
          /\ \A i \in 1..Len(Raw_Arrays) :
                LET raw == Normalize(ColumnMax(Raw_Arrays[i]), max_value)
                IN  /\ flatdata_ni[i] = raw
                    /\ flatdata_ut[i] = Interp1d(raw, final_len)
                    /\ flatdata[i] = Threshold(flatdata_ut[i],
                                               RelThreshold(threshold, max_value))
                    /\ barcodes[i] = create_barcode(flatdata[i])
    /\ (kpc \in {"generated", "gen_raised"} /\ Len(Raw_Arrays) = Len(dbdata)
           /\ dbdata # <<>> /\ Regular(infos) /\ WellFormed(lines)) =>
          /\ kpc = "generated"
          /\ self_df.meta = dbdata
          /\ self_df.array_vals = flatdata_ut
          /\ self_df.array_vals_ni = flatdata_ni

====
